---- MODULE Spec2Model ----
(***************************************************************************)
(* Model of the inertial_to_blender input adapter (src/src/input_manager.py)*)
(* and of the trajectory pipeline get_positions_times (src/src/__init__.py).*)
(*                                                                         *)
(* A file path is a sequence of one-character strings, so that str.find is *)
(* a real substring search.  A dataframe is a record of its column names   *)
(* and of its rows; a row is described by which group of cells is missing  *)
(* ("imu": the GNSS cells are null, "gnss": the inertial cells are null,   *)
(* "full": nothing is null).  A numeric series is modelled with one scalar *)
(* per column (sample): the three axes of a 3xN matrix are treated alike   *)
(* by every statement of get_positions_times.                              *)
(***************************************************************************)
EXTENDS Integers, Sequences, FiniteSets, TLC

VARIABLES
    input,              \* the arguments of the call and the recorded data
    pc,                 \* next statement of the running call
    trace,              \* history: the stages started so far, in order
    error,              \* the exception that reached the caller, or NoError
    result,             \* the value returned to the caller, or Unset
    input_type,         \* parse_input: local input_type
    sliced,             \* parse_input: the bounds used in df[slice_start:slice_end]
    cols,               \* get_positions_times: column count of every local series
    times,              \* get_positions_times: local times
    gnss_positions,     \* get_positions_times: local gnss_positions (after truncation)
    real_velocities,    \* get_positions_times: local real_velocities
    stationary_times,   \* get_positions_times: local stationary_times
    accelerations,      \* get_positions_times: local accelerations (from align_to_world on)
    correct_velocities, \* get_positions_times: local correct_velocities
    correct_position,   \* get_positions_times: local correct_position
    inverted            \* outcome of sign_inversion_is_necessary, once evaluated

vars == <<input, pc, trace, error, result, input_type, sliced, cols, times,
          gnss_positions, real_velocities, stationary_times, accelerations,
          correct_velocities, correct_position, inverted>>

----------------------------------------------------------------------------
(* Bounds of the model *)

\* longest file path, counted in fragments (SpecDetect)
MaxFrags == 3
\* most rows of a dataframe handed to a direct parse_input call
MaxRows == 3
\* most samples a recording keeps after the disturbance reduction
MaxKept == 4

----------------------------------------------------------------------------
(* Python values *)

\* Python's None for an optional integer argument; Some(3) is the integer 3
None == <<>>
Some(x) == <<x>>

Abs(x) == IF x < 0 THEN -x ELSE x
Min(a, b) == IF a < b THEN a ELSE b
Max(a, b) == IF a > b THEN a ELSE b
SetMin(S) == CHOOSE x \in S : \A y \in S : x <= y

\* an index of a slice, as list/DataFrame slicing clamps it to 0..n
PyIndex(i, n) == IF i < 0 THEN Max(i + n, 0) ELSE Min(i, n)

\* s[start:end] for a sequence s, start and end optional integers
PySlice(s, start, end) ==
    LET n == Len(s)
        a == IF start = None THEN 0 ELSE PyIndex(start[1], n)
        b == IF end = None THEN n ELSE PyIndex(end[1], n)
    IN  SubSeq(s, a + 1, b)

\* round(w / 2) of Python 3: halves are rounded to the even neighbour
PyRoundHalf(w) ==
    IF w % 2 = 0 THEN w \div 2
    ELSE IF ((w - 1) \div 2) % 2 = 0 THEN (w - 1) \div 2 ELSE (w + 1) \div 2

\* str.find: the lowest 0-based index where sub occurs in s, or -1
Find(s, sub) ==
    LET at == {i \in 0..(Len(s) - Len(sub)) : SubSeq(s, i + 1, i + Len(sub)) = sub}
    IN  IF at = {} THEN -1 ELSE SetMin(at)

----------------------------------------------------------------------------
(* InputType and detect_input_type *)

InputType == {"ACCELERATION", "FULLINERTIAL", "GNSS", "GYROSCOPE", "INERTIAL",
              "UNMOD_FULLINERTIAL", "UNMOD_INERTIAL", "UNRECOGNIZED"}

S_acc == <<"a", "c", "c">>
S_gnss == <<"g", "n", "s", "s">>
S_gyr == <<"g", "y", "r">>
S_unmodified == <<"u", "n", "m", "o", "d", "i", "f", "i", "e", "d", "-">>
S_full == <<"f", "u", "l", "l">>
S_inertial == <<"i", "n", "e", "r", "t", "i", "a", "l">>
S_fullinertial == S_full \o S_inertial
S_unmodified_fullinertial == S_unmodified \o S_fullinertial
S_unmodified_inertial == S_unmodified \o S_inertial
S_other == <<"x">>

\* the null cells of a row of the given kind
NullCells(kind) ==
    CASE kind = "imu" -> {"lon", "lat", "alt"}
      [] kind = "gnss" -> {"ax", "ay", "az", "gx", "gy", "gz", "speed"}
      [] OTHER -> {}

\* df.shape[1]
ColumnCount(df) == Cardinality(df.columns)

\* df.isnull().values.any()
AnyNull(df) ==
    \E i \in 1..Len(df.rows) : NullCells(df.rows[i]) \cap df.columns # {}

detect_input_type_swapped(df, filepath) ==
    IF Find(filepath, S_acc) # -1 THEN "ACCELERATION"
    ELSE IF Find(filepath, S_gnss) # -1 THEN "GNSS"
    ELSE IF Find(filepath, S_gyr) # -1 THEN "GYROSCOPE"
    ELSE IF Find(filepath, S_fullinertial) # -1 THEN "FULLINERTIAL"
    ELSE IF Find(filepath, S_inertial) # -1 THEN "INERTIAL"
    ELSE IF Find(filepath, S_unmodified_fullinertial) # -1 THEN "UNMOD_FULLINERTIAL"
    ELSE IF Find(filepath, S_unmodified_inertial) # -1 THEN "UNMOD_INERTIAL"
    ELSE IF ColumnCount(df) = 4 THEN "ACCELERATION"
    ELSE IF ColumnCount(df) = 10
         THEN (IF AnyNull(df) THEN "UNMOD_INERTIAL" ELSE "INERTIAL")
    ELSE IF ColumnCount(df) = 14
         THEN (IF AnyNull(df) THEN "UNMOD_FULLINERTIAL" ELSE "FULLINERTIAL")
    ELSE "UNRECOGNIZED"

detect_input_type(df, filepath) ==
    IF Find(filepath, S_acc) # -1 THEN "ACCELERATION"
    ELSE IF Find(filepath, S_gnss) # -1 THEN "GNSS"
    ELSE IF Find(filepath, S_gyr) # -1 THEN "GYROSCOPE"
    ELSE IF Find(filepath, S_unmodified_fullinertial) # -1 THEN "UNMOD_FULLINERTIAL"
    ELSE IF Find(filepath, S_unmodified_inertial) # -1 THEN "UNMOD_INERTIAL"
    ELSE IF Find(filepath, S_fullinertial) # -1 THEN "FULLINERTIAL"
    ELSE IF Find(filepath, S_inertial) # -1 THEN "INERTIAL"
    ELSE IF ColumnCount(df) = 4 THEN "ACCELERATION"
    ELSE IF ColumnCount(df) = 10
         THEN (IF AnyNull(df) THEN "UNMOD_INERTIAL" ELSE "INERTIAL")
    ELSE IF ColumnCount(df) = 14
         THEN (IF AnyNull(df) THEN "UNMOD_FULLINERTIAL" ELSE "FULLINERTIAL")
    ELSE "UNRECOGNIZED"

----------------------------------------------------------------------------
(* get_vectors and parse_input *)

InertialColumns == {"ax", "ay", "az", "gx", "gy", "gz", "timestamp", "speed"}
GnssColumns == {"lon", "lat", "alt"}

\* interp1d(kind='quadratic') needs at least this many GNSS records
MinInterpPoints == 3

\* what a call gives back: nothing yet, Python's None, a tuple of n-column arrays
Unset == [kind |-> "unset", names |-> <<>>, n |-> 0]
PyNone == [kind |-> "None", names |-> <<>>, n |-> 0]
Tuple(names, n) == [kind |-> "tuple", names |-> names, n |-> n]

NoError == [stage |-> "none", kind |-> "none"]
Exception(stage, kind) == [stage |-> stage, kind |-> kind]

Returns(value) == [raised |-> "", value |-> value]
Raises(kind) == [raised |-> kind, value |-> Unset]

\* the rows dropna(subset=[column]) keeps
DropNa(rows, column) == SelectSeq(rows, LAMBDA kind : column \notin NullCells(kind))

InertialNames == <<"times", "gps_speed", "accelerations", "angular_velocities">>
FullInertialNames == <<"times", "coordinates", "altitudes", "gps_speed",
                       "accelerations", "angular_velocities">>

get_vectors(df, type) ==
    IF type \in {"INERTIAL", "UNMOD_INERTIAL"}
    THEN IF InertialColumns \subseteq df.columns
         THEN Returns(Tuple(InertialNames, Len(df.rows)))
         ELSE Raises("KeyError")
    ELSE IF type = "FULLINERTIAL"
    THEN IF (InertialColumns \cup GnssColumns) \subseteq df.columns
         THEN Returns(Tuple(FullInertialNames, Len(df.rows)))
         ELSE Raises("KeyError")
    ELSE IF type = "UNMOD_FULLINERTIAL"
    THEN IF ~((GnssColumns \cup {"timestamp"}) \subseteq df.columns)
         THEN Raises("KeyError")
         ELSE IF Len(DropNa(df.rows, "lat")) < MinInterpPoints
         THEN Raises("ValueError")
         ELSE IF ~(InertialColumns \subseteq df.columns)
         THEN Raises("KeyError")
         ELSE Returns(Tuple(FullInertialNames, Len(DropNa(df.rows, "ax"))))
    ELSE Returns(PyNone)

SliceStartInvalid(slice_start) == slice_start # None /\ slice_start[1] < 0

SliceEndInvalid_NoAbs(slice_end, rows) == slice_end # None /\ slice_end[1] > rows

SliceEndInvalid(slice_end, rows) == slice_end # None /\ Abs(slice_end[1]) > rows

Accepts_Any(type, accepted_types) == TRUE

Accepts(type, accepted_types) == type \in accepted_types

NotSliced == [done |-> FALSE, start |-> None, end |-> None]
SlicedWith(a, b) == [done |-> TRUE, start |-> a, end |-> b]

Parsed(type, slice, outcome) ==
    [input_type |-> type, sliced |-> slice, raised |-> outcome.raised,
     value |-> outcome.value]

parse_input(filepath, df, accepted_types, slice_start, slice_end) ==
    LET type == detect_input_type(df, filepath) IN
    IF type # "UNRECOGNIZED"
    THEN IF SliceStartInvalid(slice_start)
         THEN Parsed(type, NotSliced, Raises("Slice start must be positive"))
         ELSE IF SliceEndInvalid(slice_end, Len(df.rows))
         THEN Parsed(type, NotSliced, Raises("Slice end must not exceed dataframe rows"))
         ELSE LET slice == SlicedWith(slice_start, slice_end)
                  cut == [df EXCEPT !.rows = PySlice(df.rows, slice_start, slice_end)]
              IN  IF ~Accepts(type, accepted_types)
                  THEN Parsed(type, slice, Raises("Not accepted format"))
                  ELSE Parsed(type, slice, get_vectors(cut, type))
    ELSE Parsed(type, NotSliced, Raises("Unrecognized input format"))

FormatErrors == {"Not accepted format", "Unrecognized input format"}
SliceErrors == {"Slice start must be positive", "Slice end must not exceed dataframe rows"}

----------------------------------------------------------------------------
(* The inputs *)

Fragments == {S_acc, S_gnss, S_gyr, S_unmodified, S_fullinertial, S_inertial, S_other}

\* the file paths made of at most n fragments
RECURSIVE PathsUpTo(_)
PathsUpTo(n) ==
    IF n = 0 THEN {<<>>}
    ELSE LET shorter == PathsUpTo(n - 1)
         IN  shorter \cup {p \o f : p \in shorter, f \in Fragments}

Paths == PathsUpTo(MaxFrags) \ {<<>>}

\* one file name per branch of the name analysis, and one that matches nothing
NamedPaths == {S_acc, S_gnss, S_gyr, S_unmodified_fullinertial, S_unmodified_inertial,
               S_fullinertial, S_inertial, S_other}

AccLayout == {"timestamp", "x", "y", "z"}
InertialLayout == InertialColumns \cup {"c9", "c10"}
FullInertialLayout == InertialColumns \cup GnssColumns \cup {"c12", "c13", "c14"}
OtherLayout == {"timestamp", "value", "c3"}
Layouts == {AccLayout, InertialLayout, FullInertialLayout, OtherLayout}

\* the recordings of at most n rows: GNSS and inertial records mixed, or complete rows
RowSeqs(n) ==
    UNION {[1..k -> {"imu", "gnss"}] \cup {[i \in 1..k |-> "full"]} : k \in 0..n}

\* the files: every name with the full layout, the name that matches nothing with
\* every layout, and two names over a layout that lacks their columns
Files ==
    (NamedPaths \X {FullInertialLayout})
        \cup ({S_other} \X Layouts)
        \cup ({S_inertial, S_unmodified_fullinertial} \X {AccLayout})

\* timestamps of the first recorded row
FirstTimestamps == {0, 5}

Frame(columns, rows, t0) == [columns |-> columns, rows |-> rows, t0 |-> t0]

\* window_size of get_positions_times
window_size == 20

\* a recording of g GNSS records followed by n records of the given kind
Recording(g, n, kind) == [i \in 1..(g + n) |-> IF i <= g THEN "gnss" ELSE kind]

AcceptedLists == {InputType, {"UNMOD_FULLINERTIAL"}}

OptInts(lo, hi) == {None} \cup {Some(i) : i \in lo..hi}

Call(entry, filepath, df, accepted_types, slice_start, slice_end) ==
    [entry |-> entry, filepath |-> filepath, df |-> df,
     accepted_types |-> accepted_types,
     slice_start |-> slice_start, slice_end |-> slice_end]

ParseCalls ==
    {Call("parse_input", f[1], Frame(f[2], r, 0), a, s, e) :
        f \in Files, r \in RowSeqs(MaxRows), a \in AcceptedLists,
        s \in OptInts(-1, MaxRows + 1), e \in OptInts(-(MaxRows + 1), MaxRows + 1)}

PipelineCalls ==
    {Call("get_positions_times", f[1], Frame(f[2], Recording(g, n, k), t0),
          {"UNMOD_FULLINERTIAL"}, None, None) :
        f \in Files, g \in {MinInterpPoints - 1, MinInterpPoints},
        n \in window_size..(window_size + MaxKept), k \in {"imu", "full"},
        t0 \in FirstTimestamps}

DetectCalls ==
    {Call("detect_input_type", p, Frame(c, r, 0), InputType, None, None) :
        p \in Paths, c \in Layouts, r \in RowSeqs(1)}

----------------------------------------------------------------------------
(* The state *)

SeriesNames == {"times", "coordinates", "altitudes", "gps_speed", "accelerations",
                "angular_velocities", "gnss_positions", "real_velocities"}

\* column count of a series that does not exist yet
NoCols == 0 - 1

Fresh(call_input, start) ==
    /\ input = call_input
    /\ pc = start
    /\ trace = <<>>
    /\ error = NoError
    /\ result = Unset
    /\ input_type = "undetected"
    /\ sliced = NotSliced
    /\ cols = [s \in SeriesNames |-> NoCols]
    /\ times = <<>>
    /\ gnss_positions = <<>>
    /\ real_velocities = <<>>
    /\ stationary_times = <<>>
    /\ accelerations = <<>>
    /\ correct_velocities = <<>>
    /\ correct_position = <<>>
    /\ inverted = "unevaluated"

Init ==
    \E c \in ParseCalls \cup PipelineCalls :
        Fresh(c, IF c.entry = "parse_input" THEN "call_parse_input" ELSE "parse_input")

InitDetect == \E c \in DetectCalls : Fresh(c, "call_detect_input_type")

pipeline_vars == <<cols, times, gnss_positions, real_velocities, stationary_times,
                   accelerations, correct_velocities, correct_position, inverted>>

----------------------------------------------------------------------------
(* Direct calls of the input adapter *)

\* detect_input_type(df, filepath), called on its own
DetectInputTypeCall ==
    /\ pc = "call_detect_input_type"
    /\ input_type' = detect_input_type(input.df, input.filepath)
    /\ pc' = "returned"
    /\ trace' = Append(trace, "detect_input_type")
    /\ UNCHANGED <<input, error, result, sliced, pipeline_vars>>

\* parse_input(filepath, accepted_types, slice_start, slice_end), called on its own
ParseInputCall ==
    /\ pc = "call_parse_input"
    /\ LET r == parse_input(input.filepath, input.df, input.accepted_types,
                            input.slice_start, input.slice_end)
       IN  /\ input_type' = r.input_type
           /\ sliced' = r.sliced
           /\ result' = r.value
           /\ IF r.raised # ""
              THEN pc' = "raised" /\ error' = Exception("parse_input", r.raised)
              ELSE pc' = "returned" /\ error' = NoError
    /\ trace' = Append(trace, "parse_input")
    /\ UNCHANGED <<input, pipeline_vars>>

----------------------------------------------------------------------------
(* get_positions_times: the functions it calls *)

\* sample values of the series whose content matters
PositionVals == {0, 1}
AccelerationVals == {0 - 1, 1}
SpeedVals == {0, 1}

Series(n, values) == [1..n -> values]

\* number of columns of a[:, start:end] for an array of n columns
SliceCols(n, start, end) ==
    LET m == Max(n, 0)
        a == IF start = None THEN 0 ELSE PyIndex(start[1], m)
        b == IF end = None THEN m ELSE PyIndex(end[1], m)
    IN  Max(b - a, 0)

\* timestamps of the rows of df that dropna(subset=['ax']) keeps
InertialTimestamps(df) ==
    LET index == [i \in 1..Len(df.rows) |-> i]
        kept == SelectSeq(index, LAMBDA i : "ax" \notin NullCells(df.rows[i]))
    IN  [j \in 1..Len(kept) |-> df.t0 + kept[j]]

\* reduce_disturbance: the moving average over w samples drops w columns
ReducedCols(n, w) == n - w

\* reduce_disturbance: the time vector with w/2 samples trimmed from each end
ReducedTimes(t, w) == PySlice(t, Some(w \div 2), Some(-(w - w \div 2)))

\* gnss_positions[:, round(window_size / 2):-round(window_size / 2)]
TruncatedCols_Whole(n, w) == SliceCols(n, Some(w), Some(-w))

TruncatedCols(n, w) == SliceCols(n, Some(PyRoundHalf(w)), Some(-PyRoundHalf(w)))

\* get_velocities: positions differentiated over time, one velocity per position
get_velocities(t, positions) ==
    LET n == Len(positions) IN
    [i \in 1..n |->
        IF n = 1 THEN 0
        ELSE IF i < n THEN positions[i + 1] - positions[i]
        ELSE positions[n] - positions[n - 1]]

\* np.linalg.norm(real_velocities, axis=0)
Norm(v) == [i \in 1..Len(v) |-> Abs(v[i])]

\* shortest run of stationary samples that get_stationary_times reports
MinStationaryLen == 2

\* get_stationary_times: the maximal runs [start, end) of samples at rest, in order
StationaryRuns(speeds) ==
    LET n == Len(speeds)
        rest(i) == speeds[i] = 0
    IN  {r \in (0..n) \X (0..n) :
            /\ r[2] - r[1] >= MinStationaryLen
            /\ \A i \in (r[1] + 1)..r[2] : rest(i)
            /\ (r[1] = 0 \/ ~rest(r[1]))
            /\ (r[2] = n \/ ~rest(r[2] + 1))}

RECURSIVE InOrder(_)
InOrder(runs) ==
    IF runs = {} THEN <<>>
    ELSE LET first == CHOOSE r \in runs : \A q \in runs : r[1] <= q[1]
         IN  <<first>> \o InOrder(runs \ {first})

get_stationary_times(speeds) == InOrder(StationaryRuns(speeds))

\* clear_gyro_drift and correct_z_orientation read the first stationary interval
FirstIntervalMissing(stationary) == Len(stationary) = 0

StrictlyIncreasing(t) == \A i \in 1..(Len(t) - 1) : t[i] < t[i + 1]

\* simps_integrate: the running integral of vectors over t, overwritten by
\* adjust_data at every adjust_frequency-th sample
RECURSIVE Integral(_, _, _, _, _, _)
Integral(t, vectors, initial, adjust_data, adjust_frequency, i) ==
    IF adjust_data # None /\ i <= Len(adjust_data) /\ (i - 1) % adjust_frequency = 0
    THEN adjust_data[i]
    ELSE IF i = 1 THEN initial
    ELSE Integral(t, vectors, initial, adjust_data, adjust_frequency, i - 1)
            + vectors[i] * (t[i] - t[i - 1])

simps_integrate(t, vectors, initial, adjust_data, adjust_frequency) ==
    [i \in 1..Len(vectors) |->
        Integral(t, vectors, initial, adjust_data, adjust_frequency, i)]

\* simps_integrate(times, accelerations, initial_speed, adjust_data=real_velocities,
\*                 adjust_frequency=1)
IntegrateVelocities(t, acc, initial_speed, real_v) ==
    simps_integrate(t, acc, initial_speed, real_v, 1)

IntegratePositions_NoAdjust(t, velocities, positions) ==
    simps_integrate(t, velocities, 0, None, 1)

\* simps_integrate(times, correct_velocities, adjust_data=gnss_positions,
\*                 adjust_frequency=1)
IntegratePositions(t, velocities, positions) ==
    simps_integrate(t, velocities, 0, positions, 1)

Negated(v) == [i \in 1..Len(v) |-> 0 - v[i]]

SignCorrected_VelocitiesOnly(acc, velocities, necessary) ==
    IF necessary
    THEN [accelerations |-> acc, correct_velocities |-> Negated(velocities)]
    ELSE [accelerations |-> acc, correct_velocities |-> velocities]

\* if sign_inversion_is_necessary(...): accelerations *= -1; correct_velocities *= -1
SignCorrected(acc, velocities, necessary) ==
    IF necessary
    THEN [accelerations |-> Negated(acc), correct_velocities |-> Negated(velocities)]
    ELSE [accelerations |-> acc, correct_velocities |-> velocities]

----------------------------------------------------------------------------
(* get_positions_times: its statements, in the order of the source *)

StageOrder_XYBeforeGravity ==
    <<"parse_input", "converts_measurement_units", "get_positions",
      "reduce_disturbance", "reduce_disturbance_gyro", "truncate_gnss_positions",
      "get_velocities", "get_stationary_times", "clear_gyro_drift",
      "normalize_timestamp", "correct_z_orientation", "correct_xy_orientation",
      "remove_gravity", "rotate_accelerations", "align_to_world",
      "integrate_velocities", "sign_correction", "integrate_positions">>

StageOrder ==
    <<"parse_input", "converts_measurement_units", "get_positions",
      "reduce_disturbance", "reduce_disturbance_gyro", "truncate_gnss_positions",
      "get_velocities", "get_stationary_times", "clear_gyro_drift",
      "normalize_timestamp", "correct_z_orientation", "remove_gravity",
      "correct_xy_orientation", "rotate_accelerations", "align_to_world",
      "integrate_velocities", "sign_correction", "integrate_positions">>

\* the statement after stage; after the last one the function returns
Successor(stage) ==
    LET i == CHOOSE j \in 1..Len(StageOrder) : StageOrder[j] = stage
    IN  IF i = Len(StageOrder) THEN "returned" ELSE StageOrder[i + 1]

Start(stage) == pc = stage /\ trace' = Append(trace, stage)

Raise_Swallowed(stage, kind) ==
    /\ pc' = Successor(stage)
    /\ error' = Exception(stage, kind)
    /\ UNCHANGED <<result, pipeline_vars>>

Raise_ReturnsDefault(stage, kind) ==
    /\ pc' = "returned"
    /\ error' = NoError
    /\ result' = Tuple(<<"correct_position", "times">>, 0)
    /\ UNCHANGED pipeline_vars

\* an exception of a stage leaves get_positions_times: nothing catches it
Raise(stage, kind) ==
    /\ pc' = "raised"
    /\ error' = Exception(stage, kind)
    /\ UNCHANGED <<result, pipeline_vars>>

Proceed(stage) == pc' = Successor(stage) /\ UNCHANGED <<error, result>>

\* a stage that changes no column count and none of the tracked values
Transform(stage) ==
    /\ Start(stage)
    /\ \/ Raise(stage, "DataError")
       \/ Proceed(stage) /\ UNCHANGED pipeline_vars
    /\ UNCHANGED <<input, input_type, sliced>>

\* times, coordinates, ..., angular_velocities = parse_input(path, [UNMOD_FULLINERTIAL])
ParseInput ==
    /\ Start("parse_input")
    /\ LET r == parse_input(input.filepath, input.df, {"UNMOD_FULLINERTIAL"}, None, None)
       IN  /\ input_type' = r.input_type
           /\ sliced' = r.sliced
           /\ IF r.raised # ""
              THEN Raise("parse_input", r.raised)
              ELSE IF r.value.kind # "tuple" \/ Len(r.value.names) # Len(FullInertialNames)
              THEN Raise("parse_input", "TypeError")
              ELSE /\ Proceed("parse_input")
                   /\ cols' = [s \in SeriesNames |->
                                 IF s \in {"gnss_positions", "real_velocities"}
                                 THEN NoCols ELSE r.value.n]
                   /\ times' = InertialTimestamps(input.df)
                   /\ UNCHANGED <<gnss_positions, real_velocities, stationary_times,
                                  accelerations, correct_velocities, correct_position,
                                  inverted>>
    /\ UNCHANGED input

ConvertsMeasurementUnits == Transform("converts_measurement_units")

\* gnss_positions, headings = get_positions(coordinates, altitudes)
GetPositions ==
    /\ Start("get_positions")
    /\ \/ Raise("get_positions", "DataError")
       \/ /\ Proceed("get_positions")
          /\ cols' = [cols EXCEPT !.gnss_positions = cols.coordinates]
          /\ UNCHANGED <<times, gnss_positions, real_velocities, stationary_times,
                         accelerations, correct_velocities, correct_position, inverted>>
    /\ UNCHANGED <<input, input_type, sliced>>

\* what a call of reduce_disturbance leaves in times and in the filtered series;
\* the second call binds the times it returns to _
ReduceDisturbance(t, n, w, keep_times) ==
    [times |-> IF keep_times THEN ReducedTimes(t, w) ELSE t, cols |-> ReducedCols(n, w)]

\* times, accelerations = reduce_disturbance(times, accelerations, window_size)
ReduceDisturbanceAccelerations ==
    /\ Start("reduce_disturbance")
    /\ \/ Raise("reduce_disturbance", "DataError")
       \/ LET r == ReduceDisturbance(times, cols.accelerations, window_size, TRUE)
          IN  /\ Proceed("reduce_disturbance")
              /\ times' = r.times
              /\ cols' = [cols EXCEPT !.accelerations = r.cols, !.times = Len(r.times)]
              /\ UNCHANGED <<gnss_positions, real_velocities, stationary_times,
                             accelerations, correct_velocities, correct_position,
                             inverted>>
    /\ UNCHANGED <<input, input_type, sliced>>

\* _, angular_velocities = reduce_disturbance(times, angular_velocities, window_size)
ReduceDisturbanceAngularVelocities ==
    /\ Start("reduce_disturbance_gyro")
    /\ \/ Raise("reduce_disturbance_gyro", "DataError")
       \/ LET r == ReduceDisturbance(times, cols.angular_velocities, window_size, FALSE)
          IN  /\ Proceed("reduce_disturbance_gyro")
              /\ times' = r.times
              /\ cols' = [cols EXCEPT !.angular_velocities = r.cols,
                                      !.times = Len(r.times)]
              /\ UNCHANGED <<gnss_positions, real_velocities, stationary_times,
                             accelerations, correct_velocities, correct_position,
                             inverted>>
    /\ UNCHANGED <<input, input_type, sliced>>

\* gnss_positions = gnss_positions[:, round(window_size / 2):-round(window_size / 2)]
TruncateGnssPositions ==
    /\ Start("truncate_gnss_positions")
    /\ LET n == TruncatedCols(cols.gnss_positions, window_size)
       IN  /\ cols' = [cols EXCEPT !.gnss_positions = n]
           /\ gnss_positions' \in Series(n, PositionVals)
    /\ Proceed("truncate_gnss_positions")
    /\ UNCHANGED <<times, real_velocities, stationary_times, accelerations,
                   correct_velocities, correct_position, inverted>>
    /\ UNCHANGED <<input, input_type, sliced>>

\* real_velocities = get_velocities(times, gnss_positions); real_speeds = norm(...)
GetVelocities ==
    /\ Start("get_velocities")
    /\ \/ Raise("get_velocities", "DataError")
       \/ /\ Proceed("get_velocities")
          /\ real_velocities' = get_velocities(times, gnss_positions)
          /\ cols' = [cols EXCEPT !.real_velocities = Len(gnss_positions)]
          /\ UNCHANGED <<times, gnss_positions, stationary_times, accelerations,
                         correct_velocities, correct_position, inverted>>
    /\ UNCHANGED <<input, input_type, sliced>>

\* stationary_times = get_stationary_times(real_speeds)
GetStationaryTimes ==
    /\ Start("get_stationary_times")
    /\ \/ Raise("get_stationary_times", "DataError")
       \/ /\ Proceed("get_stationary_times")
          /\ stationary_times' = get_stationary_times(Norm(real_velocities))
          /\ UNCHANGED <<cols, times, gnss_positions, real_velocities, accelerations,
                         correct_velocities, correct_position, inverted>>
    /\ UNCHANGED <<input, input_type, sliced>>

\* angular_velocities = clear_gyro_drift(angular_velocities, stationary_times)
ClearGyroDrift ==
    /\ Start("clear_gyro_drift")
    /\ IF FirstIntervalMissing(stationary_times)
       THEN Raise("clear_gyro_drift", "IndexError")
       ELSE \/ Raise("clear_gyro_drift", "DataError")
            \/ Proceed("clear_gyro_drift") /\ UNCHANGED pipeline_vars
    /\ UNCHANGED <<input, input_type, sliced>>

\* normalize_timestamp(times)
NormalizeTimestamp ==
    /\ Start("normalize_timestamp")
    /\ IF Len(times) = 0
       THEN Raise("normalize_timestamp", "IndexError")
       ELSE /\ Proceed("normalize_timestamp")
            /\ times' = [i \in 1..Len(times) |-> times[i] - times[1]]
            /\ UNCHANGED <<cols, gnss_positions, real_velocities, stationary_times,
                           accelerations, correct_velocities, correct_position, inverted>>
    /\ UNCHANGED <<input, input_type, sliced>>

\* accelerations, angular_velocities = correct_z_orientation(..., stationary_times)
CorrectZOrientation ==
    /\ Start("correct_z_orientation")
    /\ IF FirstIntervalMissing(stationary_times)
       THEN Raise("correct_z_orientation", "IndexError")
       ELSE \/ Raise("correct_z_orientation", "DataError")
            \/ Proceed("correct_z_orientation") /\ UNCHANGED pipeline_vars
    /\ UNCHANGED <<input, input_type, sliced>>

\* accelerations[2] -= accelerations[2, stationary_times[0][0]:stationary_times[0][-1]].mean()
RemoveGravity ==
    /\ Start("remove_gravity")
    /\ IF Len(stationary_times) = 0
       THEN Raise("remove_gravity", "IndexError")
       ELSE Proceed("remove_gravity") /\ UNCHANGED pipeline_vars
    /\ UNCHANGED <<input, input_type, sliced>>

CorrectXYOrientation == Transform("correct_xy_orientation")

RotateAccelerations == Transform("rotate_accelerations")

\* accelerations = align_to_world(gnss_positions, accelerations, stationary_times)
AlignToWorld ==
    /\ Start("align_to_world")
    /\ \/ Raise("align_to_world", "DataError")
       \/ /\ Proceed("align_to_world")
          /\ accelerations' \in Series(cols.accelerations, AccelerationVals)
          /\ UNCHANGED <<cols, times, gnss_positions, real_velocities, stationary_times,
                         correct_velocities, correct_position, inverted>>
    /\ UNCHANGED <<input, input_type, sliced>>

\* initial_speed = np.array([[gps_speed[0]], [0], [0]]); correct_velocities = simps_integrate(...)
IntegrateVelocitiesStage ==
    /\ Start("integrate_velocities")
    /\ IF cols.gps_speed = 0
       THEN Raise("integrate_velocities", "IndexError")
       ELSE IF ~StrictlyIncreasing(times)
       THEN Raise("integrate_velocities", "OrderingError")
       ELSE \E initial_speed \in SpeedVals :
            /\ Proceed("integrate_velocities")
            /\ correct_velocities' =
                   IntegrateVelocities(times, accelerations, initial_speed, real_velocities)
            /\ UNCHANGED <<cols, times, gnss_positions, real_velocities, stationary_times,
                           accelerations, correct_position, inverted>>
    /\ UNCHANGED <<input, input_type, sliced>>

\* if sign_inversion_is_necessary(correct_velocities): ... *= -1
SignCorrection ==
    /\ Start("sign_correction")
    /\ \E necessary \in BOOLEAN :
          LET r == SignCorrected(accelerations, correct_velocities, necessary)
          IN  /\ Proceed("sign_correction")
              /\ inverted' = IF necessary THEN "necessary" ELSE "unnecessary"
              /\ accelerations' = r.accelerations
              /\ correct_velocities' = r.correct_velocities
              /\ UNCHANGED <<cols, times, gnss_positions, real_velocities,
                             stationary_times, correct_position>>
    /\ UNCHANGED <<input, input_type, sliced>>

\* correct_position = simps_integrate(...); return correct_position, times
IntegratePositionsStage ==
    /\ Start("integrate_positions")
    /\ IF ~StrictlyIncreasing(times)
       THEN Raise("integrate_positions", "OrderingError")
       ELSE LET position == IntegratePositions(times, correct_velocities, gnss_positions)
            IN  /\ pc' = Successor("integrate_positions")
                /\ correct_position' = position
                /\ result' = Tuple(<<"correct_position", "times">>, Len(position))
                /\ UNCHANGED <<error, cols, times, gnss_positions, real_velocities,
                               stationary_times, accelerations, correct_velocities,
                               inverted>>
    /\ UNCHANGED <<input, input_type, sliced>>

----------------------------------------------------------------------------
(* Specifications *)

Next ==
    \/ ParseInputCall
    \/ ParseInput
    \/ ConvertsMeasurementUnits
    \/ GetPositions
    \/ ReduceDisturbanceAccelerations
    \/ ReduceDisturbanceAngularVelocities
    \/ TruncateGnssPositions
    \/ GetVelocities
    \/ GetStationaryTimes
    \/ ClearGyroDrift
    \/ NormalizeTimestamp
    \/ CorrectZOrientation
    \/ RemoveGravity
    \/ CorrectXYOrientation
    \/ RotateAccelerations
    \/ AlignToWorld
    \/ IntegrateVelocitiesStage
    \/ SignCorrection
    \/ IntegratePositionsStage

Spec == Init /\ [][Next]_vars

NextDetect == DetectInputTypeCall

SpecDetect == InitDetect /\ [][NextDetect]_vars

----------------------------------------------------------------------------
(* Properties *)

Pipeline == input.entry = "get_positions_times"
DirectParse == input.entry = "parse_input"

\* parse_input has run to its end, by return or by exception
ParseFinished == input_type \in InputType /\ input.entry # "detect_input_type"

Rows == Len(input.df.rows)

Ran(stage) == \E i \in 1..Len(trace) : trace[i] = stage

\* the stage has run and has not raised
Completed(stage) == Ran(stage) /\ error.stage # stage

Rejected == input_type = "UNRECOGNIZED" \/ input_type \notin input.accepted_types

NoVectors == result = Unset /\ pc = "raised" /\ trace = <<"parse_input">>

\* C1, as stated: an input detected as UNRECOGNIZED or as a type outside
\* accepted_types makes parse_input fail with a format error and return no vectors;
\* get_positions_times then fails before any processing stage runs.
C1_FormatErrorAlways ==
    (ParseFinished /\ Rejected) => (NoVectors /\ error.kind \in FormatErrors)

SliceBoundRefused ==
    \/ input.slice_start # None /\ input.slice_start[1] < 0
    \/ input.slice_end # None /\ Abs(input.slice_end[1]) > Rows

\* C1, amended: such an input makes parse_input fail and return no vectors; the error
\* is a format error, except that a recognized type outside accepted_types called
\* with a refused slice bound fails with the slice error, which is checked first.
\* get_positions_times passes no slice bounds: it fails with the format error before
\* any processing stage runs.
C1_RejectedNeverParsed ==
    (ParseFinished /\ Rejected) =>
        /\ NoVectors
        /\ IF input_type # "UNRECOGNIZED" /\ SliceBoundRefused
           THEN error.kind \in SliceErrors
           ELSE error.kind \in FormatErrors
        /\ Pipeline => error.kind \in FormatErrors
        /\ input_type = "UNRECOGNIZED" => error.kind = "Unrecognized input format"

C1_Witness ==
    /\ Pipeline
    /\ input_type = "FULLINERTIAL"
    /\ pc = "raised"
    /\ error = Exception("parse_input", "Not accepted format")

Recognized == ParseFinished /\ input_type # "UNRECOGNIZED"

InRecording(bound) == bound = None \/ (0 <= bound[1] /\ bound[1] <= Rows)

\* C2, as stated: for a recognized input parse_input fails with a slice error unless
\* each given bound lies in 0..rows, and no other bound is ever used to slice.
C2_BoundsWithinRecording ==
    Recognized =>
        /\ ~(InRecording(input.slice_start) /\ InRecording(input.slice_end))
               => (pc = "raised" /\ error.kind \in SliceErrors)
        /\ sliced.done => (InRecording(sliced.start) /\ InRecording(sliced.end))

\* C2, amended: for a recognized input parse_input fails with a slice error exactly
\* when slice_start is given and negative or slice_end is given and its absolute
\* value exceeds the number of rows; the bounds used to slice are the given ones,
\* with slice_start >= 0 and -rows <= slice_end <= rows (a slice_start beyond the
\* last row and a negative slice_end are used as they are).
C2_SliceValidation ==
    Recognized =>
        /\ SliceBoundRefused <=> (pc = "raised" /\ error.kind \in SliceErrors)
        /\ SliceBoundRefused <=> ~sliced.done
        /\ sliced.done =>
              /\ sliced.start = input.slice_start /\ sliced.end = input.slice_end
              /\ sliced.start # None => sliced.start[1] >= 0
              /\ sliced.end # None => (0 - Rows <= sliced.end[1] /\ sliced.end[1] <= Rows)

C2_Witness ==
    /\ DirectParse /\ pc = "returned"
    /\ sliced.done
    /\ sliced.end # None /\ sliced.end[1] < 0
    /\ sliced.start # None /\ sliced.start[1] > Rows

\* C3: whenever parse_input completes without raising it returns the tuple of arrays
\* of the detected type (four arrays for the inertial types, six for the
\* fullinertial ones), never an empty or null result.
C3_ReturnsVectors ==
    (DirectParse /\ pc = "returned") =>
        /\ result.kind = "tuple"
        /\ result.names \in {InertialNames, FullInertialNames}

NoStationaryInterval == Completed("get_stationary_times") /\ Len(stationary_times) = 0

StagesAfterGyroDrift ==
    {"normalize_timestamp", "correct_z_orientation", "remove_gravity",
     "correct_xy_orientation", "rotate_accelerations", "align_to_world",
     "integrate_velocities", "sign_correction", "integrate_positions"}

StageOf(step) ==
    CASE step = "converts_measurement_units" -> "unit conversion"
      [] step = "get_positions" -> "GNSS position/heading extraction"
      [] step \in {"reduce_disturbance", "reduce_disturbance_gyro",
                   "truncate_gnss_positions"} -> "disturbance reduction"
      [] step = "get_stationary_times" -> "stationary-interval detection"
      [] step = "clear_gyro_drift" -> "drift/bias removal"
      [] step = "correct_z_orientation" -> "z orientation correction"
      [] step = "correct_xy_orientation" -> "xy orientation correction"
      [] step = "remove_gravity" -> "gravity removal"
      [] step = "rotate_accelerations" -> "frame rotation"
      [] step = "align_to_world" -> "world alignment"
      [] step = "integrate_velocities" -> "anchored velocity integration"
      [] step = "sign_correction" -> "sign correction"
      [] step = "integrate_positions" -> "final anchored position integration"
      [] OTHER -> ""

\* the stages started so far, a stage made of several statements counted once
RECURSIVE StagesOf(_)
StagesOf(steps) ==
    IF steps = <<>> THEN <<>>
    ELSE LET before == StagesOf(SubSeq(steps, 1, Len(steps) - 1))
             stage == StageOf(steps[Len(steps)])
         IN  IF stage = "" \/ (before # <<>> /\ before[Len(before)] = stage)
             THEN before
             ELSE Append(before, stage)

IsPrefix(a, b) == Len(a) <= Len(b) /\ SubSeq(b, 1, Len(a)) = a

OrderAsStated ==
    <<"unit conversion", "GNSS position/heading extraction", "disturbance reduction",
      "stationary-interval detection", "drift/bias removal", "z orientation correction",
      "xy orientation correction", "gravity removal", "frame rotation",
      "world alignment", "anchored velocity integration", "sign correction",
      "final anchored position integration">>

OrderOfTheCode ==
    <<"unit conversion", "GNSS position/heading extraction", "disturbance reduction",
      "stationary-interval detection", "drift/bias removal", "z orientation correction",
      "gravity removal", "xy orientation correction", "frame rotation",
      "world alignment", "anchored velocity integration", "sign correction",
      "final anchored position integration">>

\* C5, as stated: the stages run once each in the order unit conversion, GNSS
\* extraction, disturbance reduction, stationary detection, drift removal, orientation
\* correction (z, then xy), gravity removal, frame rotation, world alignment, velocity
\* integration, sign correction, position integration.
C5_OrderAsStated ==
    Pipeline =>
        /\ IsPrefix(StagesOf(trace), OrderAsStated)
        /\ pc = "returned" => StagesOf(trace) = OrderAsStated

\* C5, amended: the stages run at most once each, and once each in a run that
\* returns, in the order of the claim except that gravity removal runs between the z
\* and the xy orientation correction.
C5_OrderOfTheCode ==
    Pipeline =>
        /\ IsPrefix(StagesOf(trace), OrderOfTheCode)
        /\ pc = "returned" => StagesOf(trace) = OrderOfTheCode
        /\ \A i, j \in 1..Len(trace) : trace[i] = trace[j] => i = j

C5_Witness == Pipeline /\ pc = "returned" /\ StagesOf(trace) = OrderOfTheCode

\* C6: once a stage of get_positions_times has failed, parsing included, no later
\* stage runs, the caller gets the exception of that stage as it was raised, and no
\* result is returned.
C6_FailureAborts ==
    (Pipeline /\ error # NoError) =>
        /\ pc = "raised"
        /\ result = Unset
        /\ trace # <<>> /\ trace[Len(trace)] = error.stage
        /\ error.stage = "parse_input" =>
              error.kind \in {parse_input(input.filepath, input.df, {"UNMOD_FULLINERTIAL"},
                                          None, None).raised, "TypeError"}
        /\ error.kind = "IndexError" => Len(stationary_times) = 0

C6_Witness ==
    /\ Pipeline /\ pc = "raised"
    /\ error = Exception("align_to_world", "DataError")
    /\ Len(trace) < Len(StageOrder)

\* C7: the sign-correction step negates every sample of the accelerations and of the
\* integrated velocities when the inversion is judged necessary and changes neither
\* otherwise; it changes no other series.
C7_SignCorrection ==
    [][(pc = "sign_correction" /\ pc' = "integrate_positions") =>
          /\ Len(accelerations') = Len(accelerations)
          /\ Len(correct_velocities') = Len(correct_velocities)
          /\ inverted' \in {"necessary", "unnecessary"}
          /\ inverted' = "necessary" =>
                /\ \A i \in 1..Len(accelerations) :
                        accelerations'[i] = 0 - accelerations[i]
                /\ \A i \in 1..Len(correct_velocities) :
                        correct_velocities'[i] = 0 - correct_velocities[i]
          /\ inverted' = "unnecessary" =>
                /\ accelerations' = accelerations
                /\ correct_velocities' = correct_velocities
          /\ UNCHANGED <<times, gnss_positions, real_velocities, cols>>]_vars

C7_Witness ==
    /\ pc = "integrate_positions"
    /\ inverted = "necessary"
    /\ \E i \in 1..Len(accelerations) : accelerations[i] # 0
    /\ \E i \in 1..Len(correct_velocities) : correct_velocities[i] # 0

\* C8: with adjust_frequency=1 the integrator returns as many samples as it is given
\* and its output equals the reference at every sample: the velocities equal the
\* GNSS-derived velocities, the final positions equal the GNSS positions.
C8_AnchoredIntegration ==
    Pipeline =>
        /\ pc = "sign_correction" =>
              /\ Len(correct_velocities) = Len(accelerations)
              /\ \A i \in 1..Len(real_velocities) :
                    correct_velocities[i] = real_velocities[i]
        /\ pc = "returned" =>
              /\ Len(correct_position) = Len(correct_velocities)
              /\ result.n = Len(correct_velocities)
              /\ \A i \in 1..Len(gnss_positions) :
                    correct_position[i] = gnss_positions[i]

C8_Witness ==
    /\ Pipeline /\ pc = "returned"
    /\ Len(correct_position) = MaxKept
    /\ \E i \in 1..Len(correct_position) : correct_position[i] # 0
    /\ \E i \in 1..Len(correct_position) : correct_position[i] # correct_velocities[i]
    /\ \E i \in 1..Len(real_velocities) : real_velocities[i] # 0

\* the number N of samples of the recording
Samples == Len(DropNa(input.df.rows, "ax"))

Contains(s, sub) == \E i \in 1..(Len(s) - Len(sub) + 1) : SubSeq(s, i, i + Len(sub) - 1) = sub

NameOrder ==
    <<S_acc, S_gnss, S_gyr, S_unmodified_fullinertial, S_unmodified_inertial,
      S_fullinertial, S_inertial>>

NameTags ==
    <<"ACCELERATION", "GNSS", "GYROSCOPE", "UNMOD_FULLINERTIAL", "UNMOD_INERTIAL",
      "FULLINERTIAL", "INERTIAL">>

NoNameMatches == \A k \in 1..Len(NameOrder) : ~Contains(input.filepath, NameOrder[k])

\* C10: detect_input_type always returns a tag: the tag of the first substring of the
\* path found in the order acc, gnss, gyr, unmodified-fullinertial,
\* unmodified-inertial, fullinertial, inertial; the column layout decides only when
\* no substring is found, and UNRECOGNIZED is returned exactly when no substring is
\* found and the column count is not 4, 10 or 14.
C10_Classifier ==
    pc = "returned" =>
        /\ input_type \in InputType
        /\ \A k \in 1..Len(NameOrder) :
              (/\ Contains(input.filepath, NameOrder[k])
               /\ \A j \in 1..(k - 1) : ~Contains(input.filepath, NameOrder[j]))
                  => input_type = NameTags[k]
        /\ NoNameMatches =>
              /\ ColumnCount(input.df) = 4 => input_type = "ACCELERATION"
              /\ ColumnCount(input.df) = 10 =>
                    input_type = IF AnyNull(input.df) THEN "UNMOD_INERTIAL" ELSE "INERTIAL"
              /\ ColumnCount(input.df) = 14 =>
                    input_type = IF AnyNull(input.df) THEN "UNMOD_FULLINERTIAL"
                                 ELSE "FULLINERTIAL"
        /\ input_type = "UNRECOGNIZED" <=>
              (NoNameMatches /\ ColumnCount(input.df) \notin {4, 10, 14})

C10_Witness ==
    /\ pc = "returned"
    /\ Contains(input.filepath, S_unmodified_fullinertial)
    /\ Len(input.filepath) > Len(S_unmodified_fullinertial)
    /\ ~Contains(input.filepath, S_acc)
    /\ ColumnCount(input.df) = 4
    /\ input_type = "UNMOD_FULLINERTIAL"

====
